---- MODULE Spec2Model ----
(***************************************************************************)
(* Model of vmesh/src/char_anim.rs: conversion of glTF skeletal animation *)
(* and skin data into RFA key sequences, the RFA file record and the V3MC *)
(* bone list.                                                              *)
(*                                                                         *)
(* Numbers.  An f32 is represented by an integer count of 1/256 units     *)
(* (F32One = 1.0).  An f32 product is the exact product rounded to the 24 *)
(* significant bits of an f32, ties to even (RoundF32).  The values fed   *)
(* to the model are dyadic and below 2^31 / 256 after every product, the  *)
(* range of the integers of the model.  NaN is a value apart, which every *)
(* f32 operation hands on.                                                *)
(***************************************************************************)
EXTENDS Integers, Sequences, FiniteSets

VARIABLES
    anim,       \* gltf::Animation: the sequence of its channels
    skin,       \* gltf::Skin: joints (scene node indices) and inverse bind matrices
    scene,      \* the scene graph: children and name of every node
    target,     \* the node key extraction is run for
    rot_res,    \* outcome of convert_rotation_keys
    trans_res,  \* outcome of convert_translation_keys
    pc,         \* position of the running function
    bones,      \* convert_bones: the local Vec<v3mc::Bone>
    bones_ret,  \* convert_bones: what the caller receives
    rfa_bones,  \* make_rfa: the local Vec<rfa::Bone>
    rfa,        \* make_rfa: the rfa::File it returns
    range,      \* determine_anim_time_range: the pair it returns
    file,       \* the output file on disk
    wrt,        \* the BufWriter: records written but not yet flushed
    io_ret      \* convert_animation_to_rfa: what the caller receives

vars == <<anim, skin, scene, target, rot_res, trans_res, pc, bones, bones_ret,
          rfa_bones, rfa, range, file, wrt, io_ret>>

-----------------------------------------------------------------------------
(* Bounds of the model *)

MaxKeys == 2        \* timestamps of a channel
MaxSamples == 6     \* raw output samples of a channel
MaxChannels == 3    \* channels of an animation
MaxJoints == 3      \* joints of a skin whose content is enumerated

-----------------------------------------------------------------------------
(* Numbers *)

F32One == 256
FramesPerSecond == 30
TicksPerFrame == 160
QuatScale == 16383

Min(a, b) == IF a <= b THEN a ELSE b
Max(a, b) == IF a >= b THEN a ELSE b

\* Rust `as` from f32 to an integer type: truncation toward zero, saturating.
TruncDiv(a, b) == IF a >= 0 THEN a \div b ELSE -((-a) \div b)
Saturate(x, lo, hi) == Max(lo, Min(hi, x))
SaturateI32(x) == Saturate(x, -2147483647 - 1, 2147483647)
SaturateI16(x) == Saturate(x, -32768, 32767)

Abs(x) == IF x < 0 THEN -x ELSE x

\* f32::NAN: no number of the model reaches this value.
NaN == -2147483647 - 1
F32Neg(x) == IF x = NaN THEN NaN ELSE -x

\* The weight of the last of the 24 significant bits of a (a >= 0).
RECURSIVE Ulp(_)
Ulp(a) == IF a < 16777216 THEN 1 ELSE 2 * Ulp(a \div 2)

\* Rounding to the nearest f32, ties to even.
RoundF32(n) ==
    LET a == Abs(n)
        u == Ulp(a)
        q == a \div u
        r == a % u
        up == 2 * r > u \/ (2 * r = u /\ q % 2 = 1)
        m == (IF up THEN q + 1 ELSE q) * u
    IN  IF n < 0 THEN -m ELSE m

\* The f32 product of an f32 and a whole number.
F32Mul(x, c) == RoundF32(x * c)

gltf_time_to_rfa_time(time_sec) ==
    SaturateI32(TruncDiv(F32Mul(F32Mul(time_sec, FramesPerSecond), TicksPerFrame), F32One))

\* NaN `as i16` is 0.
make_short_quat(quat) ==
    [k \in 1..4 |-> IF quat[k] = NaN THEN 0
                    ELSE SaturateI16(TruncDiv(F32Mul(quat[k], QuatScale), F32One))]

gltf_to_rf_quat(quat) == <<F32Neg(quat[1]), F32Neg(quat[2]), quat[3], quat[4]>>
gltf_to_rf_vec(vec) == <<vec[1], vec[2], F32Neg(vec[3])>>

-----------------------------------------------------------------------------
(* Key extraction *)

NotRun == [status |-> "not run"]
Panicked == [status |-> "panic"]
OkKeys(ks) == [status |-> "ok", keys |-> ks]

get_node_anim_channels(n, an) == SelectSeq(an, LAMBDA c : c.node = n)

\* The first filter_map: channels whose inputs and outputs can both be read.
ReadChannels(chs) == SelectSeq(chs, LAMBDA c : c.readable)

\* The second filter_map: channels whose outputs are of the wanted kind.
OutputsOfKind(chs, kind) == SelectSeq(chs, LAMBDA c : c.kind = kind)

\* .chunks(3).map(|s| (s[0], s[1], s[2])): indexing a short last chunk panics.
ChunksPanic(samples) == Len(samples) % 3 # 0
Chunks3(samples) ==
    [i \in 1..(Len(samples) \div 3) |->
        <<samples[3*i - 2], samples[3*i - 1], samples[3*i]>>]
Replicate3(samples) == [i \in 1..Len(samples) |-> <<samples[i], samples[i], samples[i]>>]

Chunked(samples, interpolation) ==
    IF interpolation = "CubicSpline" THEN Chunks3(samples) ELSE Replicate3(samples)

\* inputs.map(gltf_time_to_rfa_time).zip(chunked): as long as the shorter one.
ZipTimes(inputs, chunked) ==
    [i \in 1..Min(Len(inputs), Len(chunked)) |->
        <<gltf_time_to_rfa_time(inputs[i]), chunked[i]>>]

RotationKeyOfTangent(p) ==
    [time |-> p[1], rotation |-> p[2][1], ease_in |-> 0, ease_out |-> 0]
RotationKey(p) ==
    [time |-> p[1], rotation |-> p[2][2], ease_in |-> 0, ease_out |-> 0]

RotationChannelKeys(c) ==
    LET rotations_quads ==
            [i \in 1..Len(c.outputs) |-> make_short_quat(gltf_to_rf_quat(c.outputs[i]))]
        zipped == ZipTimes(c.inputs, Chunked(rotations_quads, c.interpolation))
    IN  IF c.interpolation = "CubicSpline" /\ ChunksPanic(rotations_quads)
        THEN Panicked
        ELSE OkKeys([i \in 1..Len(zipped) |-> RotationKey(zipped[i])])

SelectLast(sel) == sel[Len(sel)]
SelectFirst(sel) == Head(sel)

\* .next().unwrap_or_default(): the pipeline is lazy, only the first selected
\* channel is ever converted.
convert_rotation_keys(n, an) ==
    LET sel == OutputsOfKind(ReadChannels(get_node_anim_channels(n, an)), "Rotations")
    IN  IF sel = <<>> THEN OkKeys(<<>>) ELSE RotationChannelKeys(SelectFirst(sel))

TranslationKeyWithTangents(p) ==
    [time |-> p[1], in_tangent |-> p[2][1], translation |-> p[2][2],
     out_tangent |-> p[2][3]]
TranslationKey(p) ==
    [time |-> p[1], in_tangent |-> p[2][2], translation |-> p[2][2],
     out_tangent |-> p[2][2]]

TranslationChannelKeys(c) ==
    LET rf_translations == [i \in 1..Len(c.outputs) |-> gltf_to_rf_vec(c.outputs[i])]
        zipped == ZipTimes(c.inputs, Chunked(rf_translations, c.interpolation))
    IN  IF c.interpolation = "CubicSpline" /\ ChunksPanic(rf_translations)
        THEN Panicked
        ELSE OkKeys([i \in 1..Len(zipped) |-> TranslationKey(zipped[i])])

convert_translation_keys(n, an) ==
    LET sel == OutputsOfKind(ReadChannels(get_node_anim_channels(n, an)), "Translations")
    IN  IF sel = <<>> THEN OkKeys(<<>>) ELSE TranslationChannelKeys(SelectFirst(sel))

-----------------------------------------------------------------------------
(* The animation file record *)

KeyTimes(ks) == [i \in 1..Len(ks) |-> ks[i].time]

\* flat_map: every bone's rotation key times, then its translation key times.
BoneTimes(b) == KeyTimes(b.rotation_keys) \o KeyTimes(b.translation_keys)
RECURSIVE AllTimes(_)
AllTimes(bs) == IF bs = <<>> THEN <<>> ELSE BoneTimes(Head(bs)) \o AllTimes(Tail(bs))

FoldMinMax(acc, time) == <<Min(acc[1], time), Max(acc[2], time)>>

\* fold((0, 0), |(min, max), time| (min.min(time), max.max(time)))
RECURSIVE Fold(_, _)
Fold(acc, times) ==
    IF times = <<>> THEN acc ELSE Fold(FoldMinMax(acc, Head(times)), Tail(times))
determine_anim_time_range(bs) == Fold(<<0, 0>>, AllTimes(bs))

RfaBone(rk, tk) == [weight |-> F32One, rotation_keys |-> rk, translation_keys |-> tk]

FileHeader(bs) ==
    LET r == determine_anim_time_range(bs)
    IN  [num_bones |-> Len(bs), start_time |-> r[1], end_time |-> r[2],
         ramp_in_time |-> 480, ramp_out_time |-> 480,
         total_rotation |-> <<0, 0, 0, F32One>>, total_translation |-> <<0, 0, 0>>]

NoFile == [status |-> "none"]
RfaFile(bs) == [status |-> "built", header |-> FileHeader(bs), bones |-> bs]

PushFront(v, x) == <<x>> \o v
Push(v, x) == Append(v, x)

-----------------------------------------------------------------------------
(* The skeleton *)

MAX_BONES == 50

None == [some |-> FALSE]
Some(x) == [some |-> TRUE, value |-> x]

NumJoints == Len(skin.joints)
Children(n) == scene.children[n]

\* Positions are 0-based as in the source: joint i is skin.joints[i + 1].
JointAt(sk, i) == sk.joints[i + 1]
Positions(sk) == 0..(Len(sk.joints) - 1)

FirstOf(S) == CHOOSE x \in S : \A y \in S : x <= y

get_joint_index_raw(node, sk) == node
\* .expect("joint not found"): callers pass a node taken from skin.joints().
get_joint_index(node, sk) == FirstOf({i \in Positions(sk) : JointAt(sk, i) = node})

get_joint_parent(node, sk) ==
    LET ps == {i \in Positions(sk) : node \in Children(JointAt(sk, i))}
    IN  IF ps = {} THEN None ELSE Some(JointAt(sk, FirstOf(ps)))

\* glam::Mat4::to_scale_rotation_translation on a matrix whose linear part is
\* diagonal: x_axis.length() * signum(det), y_axis.length(), z_axis.length().
to_scale(m) ==
    LET det == m.diag[1] * m.diag[2] * m.diag[3]
    IN  <<(IF det < 0 THEN -1 ELSE 1) * Abs(m.diag[1]), Abs(m.diag[2]), Abs(m.diag[3])>>

\* The rotation part of to_scale_rotation_translation.  Each axis is multiplied
\* by the reciprocal of its scale: +-1 on the diagonal, and NaN (0 * inf) for an
\* axis of length 0.  Quat::from_rotation_axes then branches on m22 and on
\* m11 - m00 or m11 + m00 (a comparison with NaN is false), and every branch
\* adds all three diagonal entries: one NaN makes the four components NaN.
NormalizedAxis(d, sc) == IF sc = 0 THEN NaN ELSE IF (d < 0) = (sc < 0) THEN 1 ELSE -1
LessEqZero(x) == x # NaN /\ x <= 0
F32Add(x, y) == IF x = NaN \/ y = NaN THEN NaN ELSE x + y
to_rotation(m) ==
    LET scale == to_scale(m)
        m00 == NormalizedAxis(m.diag[1], scale[1])
        m11 == NormalizedAxis(m.diag[2], scale[2])
        m22 == NormalizedAxis(m.diag[3], scale[3])
        q == IF LessEqZero(m22)
             THEN IF LessEqZero(F32Add(m11, F32Neg(m00)))
                  THEN <<F32One, 0, 0, 0>> ELSE <<0, F32One, 0, 0>>
             ELSE IF LessEqZero(F32Add(m11, m00))
                  THEN <<0, 0, F32One, 0>> ELSE <<0, 0, 0, F32One>>
    IN  IF NaN \in {m00, m11, m22} THEN <<NaN, NaN, NaN, NaN>> ELSE q

MaxElement(v) == Max(v[1], Max(v[2], v[3]))
SubOne(v) == <<v[1] - F32One, v[2] - F32One, v[3] - F32One>>

\* assert!((gltf_scale - Vec3::ONE).max_element() < 0.01)
ScaleAssert(scale) == MaxElement(SubOne(scale)) * 100 < F32One

DefaultName(index) == <<"bone", index>>
BoneName(n, index) ==
    IF scene.names[n].some THEN scene.names[n].value ELSE DefaultName(index)

convert_bone(n, inverse_bind_matrix, index, sk) ==
    LET parent_node_opt == get_joint_parent(n, sk)
        parent_index == IF parent_node_opt.some
                        THEN get_joint_index(parent_node_opt.value, sk) ELSE -1
    IN  [name |-> BoneName(n, index),
         base_rotation |-> gltf_to_rf_quat(to_rotation(inverse_bind_matrix)),
         base_translation |-> gltf_to_rf_vec(inverse_bind_matrix.w),
         parent_index |-> parent_index]

NotReturned == [status |-> "not returned"]
Err(msg) == [status |-> "Err", msg |-> msg]
Ok(v) == [status |-> "Ok", value |-> v]

TooManyBonesOffByOne(num_joints) == num_joints > MAX_BONES + 1
TooManyBones(num_joints) == num_joints > MAX_BONES

-----------------------------------------------------------------------------
(* Actions: key extraction for one node *)

ConvertRotationKeys ==
    /\ pc = "keys"
    /\ rot_res = NotRun
    /\ rot_res' = convert_rotation_keys(target, anim)
    /\ UNCHANGED <<anim, skin, scene, target, trans_res, pc, bones, bones_ret,
                   rfa_bones, rfa, range, file, wrt, io_ret>>

ConvertTranslationKeys ==
    /\ pc = "keys"
    /\ rot_res # NotRun
    /\ trans_res = NotRun
    /\ trans_res' = convert_translation_keys(target, anim)
    /\ UNCHANGED <<anim, skin, scene, target, rot_res, pc, bones, bones_ret,
                   rfa_bones, rfa, range, file, wrt, io_ret>>

(* Action: the time range of a list of bone animations *)

DetermineAnimTimeRange ==
    /\ pc = "range"
    /\ range' = Some(determine_anim_time_range(rfa_bones))
    /\ pc' = "returned"
    /\ UNCHANGED <<anim, skin, scene, target, rot_res, trans_res, bones, bones_ret,
                   rfa_bones, rfa, file, wrt, io_ret>>

-----------------------------------------------------------------------------
(* Actions: convert_bones *)

\* Lines 192-207: the capacity check, the read of the matrices, the count check.
ConvertBonesCheck ==
    /\ pc = "convert_bones"
    /\ IF TooManyBones(NumJoints)
       THEN /\ bones_ret' = Err("too many bones")
            /\ pc' = "returned"
       ELSE IF ~skin.ibm.some
       THEN /\ bones_ret' = bones_ret   \* .expect("expected inverse bind matrices")
            /\ pc' = "panic"
       ELSE IF Len(skin.ibm.value) # NumJoints
       THEN /\ bones_ret' = Err("invalid number of inverse bind matrices")
            /\ pc' = "returned"
       ELSE /\ bones_ret' = bones_ret
            /\ pc' = "bones_loop"
    /\ UNCHANGED <<anim, skin, scene, target, rot_res, trans_res, bones,
                   rfa_bones, rfa, range, file, wrt, io_ret>>

\* Lines 210-213: one turn of the loop; the assertion of convert_bone may abort.
ConvertBone ==
    /\ pc = "bones_loop"
    /\ Len(bones) < NumJoints
    /\ LET i == Len(bones)
           m == skin.ibm.value[i + 1]
       IN  IF ScaleAssert(to_scale(m))
           THEN /\ bones' = Push(bones, convert_bone(JointAt(skin, i), m, i, skin))
                /\ pc' = pc
           ELSE /\ bones' = bones
                /\ pc' = "panic"
    /\ UNCHANGED <<anim, skin, scene, target, rot_res, trans_res, bones_ret,
                   rfa_bones, rfa, range, file, wrt, io_ret>>

\* Line 214
ConvertBonesReturn ==
    /\ pc = "bones_loop"
    /\ Len(bones) = NumJoints
    /\ bones_ret' = Ok(bones)
    /\ pc' = "returned"
    /\ UNCHANGED <<anim, skin, scene, target, rot_res, trans_res, bones,
                   rfa_bones, rfa, range, file, wrt, io_ret>>

-----------------------------------------------------------------------------
(* Actions: make_rfa *)

\* The caller goes on to the animation once the bone list is returned.
BeginMakeRfa ==
    /\ pc = "returned"
    /\ bones_ret.status = "Ok"
    /\ rfa = NoFile
    /\ pc' = "make_rfa"
    /\ UNCHANGED <<anim, skin, scene, target, rot_res, trans_res, bones, bones_ret,
                   rfa_bones, rfa, range, file, wrt, io_ret>>

\* Lines 129-137: one turn of the loop; key extraction may abort.
MakeRfaBone ==
    /\ pc = "make_rfa"
    /\ Len(rfa_bones) < NumJoints
    /\ LET n == JointAt(skin, Len(rfa_bones))
           rotation_keys == convert_rotation_keys(n, anim)
           translation_keys == convert_translation_keys(n, anim)
       IN  IF rotation_keys.status = "ok" /\ translation_keys.status = "ok"
           THEN /\ rfa_bones' = Push(rfa_bones,
                                     RfaBone(rotation_keys.keys, translation_keys.keys))
                /\ pc' = pc
           ELSE /\ rfa_bones' = rfa_bones
                /\ pc' = "panic"
    /\ UNCHANGED <<anim, skin, scene, target, rot_res, trans_res, bones, bones_ret,
                   rfa, range, file, wrt, io_ret>>

\* Lines 138-152
MakeRfaReturn ==
    /\ pc = "make_rfa"
    /\ Len(rfa_bones) = NumJoints
    /\ rfa' = RfaFile(rfa_bones)
    /\ pc' = IF file.exists THEN "write" ELSE "rfa_built"
    /\ UNCHANGED <<anim, skin, scene, target, rot_res, trans_res, bones, bones_ret,
                   rfa_bones, range, file, wrt, io_ret>>

-----------------------------------------------------------------------------
(* Actions: convert_animation_to_rfa *)

Absent == [exists |-> FALSE]
OnDisk(content) == [exists |-> TRUE, content |-> content]

\* rfa::File::write: the header, then every bone, one after the other.
Serialize(f) == <<f.header>> \o f.bones

\* Lines 156-157: the name is formatted and println! writes it to the standard
\* output; println! panics when the standard output cannot be written.
println ==
    /\ pc = "println"
    /\ pc' \in {"create", "panic"}
    /\ UNCHANGED <<anim, skin, scene, target, rot_res, trans_res, bones, bones_ret,
                   rfa_bones, rfa, range, file, wrt, io_ret>>

\* Line 159: File::create(file_name)?
CreateFile ==
    /\ pc = "create"
    /\ \/ /\ file' = OnDisk(<<>>)
          /\ pc' = "make_rfa"
          /\ io_ret' = io_ret
       \/ /\ file' = file
          /\ pc' = "returned"
          /\ io_ret' = Err("create")
    /\ UNCHANGED <<anim, skin, scene, target, rot_res, trans_res, bones, bones_ret,
                   rfa_bones, rfa, range, wrt>>

\* Line 161: rfa.write(&mut wrt)?, one record at a time.  The BufWriter keeps
\* the record, or first flushes what it holds.  A flush writes the buffer piece
\* by piece and stops at the first error, which `?` propagates: the pieces
\* written before it are in the file and no longer in the buffer.
WriteRecord ==
    /\ pc = "write"
    /\ Len(file.content) + Len(wrt) < Len(Serialize(rfa))
    /\ LET rec == Serialize(rfa)[Len(file.content) + Len(wrt) + 1]
       IN  \/ /\ wrt' = Append(wrt, rec)
              /\ UNCHANGED <<file, pc, io_ret>>
           \/ /\ wrt # <<>>
              /\ file' = OnDisk(file.content \o wrt)
              /\ wrt' = <<rec>>
              /\ UNCHANGED <<pc, io_ret>>
           \/ \E k \in 0..(Len(wrt) - 1) :
                  /\ file' = OnDisk(file.content \o SubSeq(wrt, 1, k))
                  /\ wrt' = SubSeq(wrt, k + 1, Len(wrt))
                  /\ io_ret' = Err("write")
                  /\ pc' = "drop"
    /\ UNCHANGED <<anim, skin, scene, target, rot_res, trans_res, bones, bones_ret,
                   rfa_bones, rfa, range>>

\* Line 162: Ok(())
WriteReturn ==
    /\ pc = "write"
    /\ Len(file.content) + Len(wrt) = Len(Serialize(rfa))
    /\ io_ret' = Ok(<<>>)
    /\ pc' = "drop"
    /\ UNCHANGED <<anim, skin, scene, target, rot_res, trans_res, bones, bones_ret,
                   rfa_bones, rfa, range, file, wrt>>

\* The BufWriter goes out of scope: it flushes, and ignores a failure, which
\* leaves in the file the pieces written before it.
DropWriter ==
    /\ pc = "drop"
    /\ \/ file' = OnDisk(file.content \o wrt)
       \/ \E k \in 0..(Len(wrt) - 1) :
              file' = OnDisk(file.content \o SubSeq(wrt, 1, k))
    /\ wrt' = <<>>
    /\ pc' = "returned"
    /\ UNCHANGED <<anim, skin, scene, target, rot_res, trans_res, bones, bones_ret,
                   rfa_bones, rfa, range, io_ret>>

-----------------------------------------------------------------------------
(* Inputs *)

SeqsOfLen(S, lens) == UNION {[1..k -> S] : k \in lens}
SeqsUpTo(S, n) == SeqsOfLen(S, 0..n)
InjSeqsUpTo(S, n) ==
    {s \in SeqsUpTo(S, n) : \A i, j \in 1..Len(s) : s[i] = s[j] => i = j}

Interpolations == {"Step", "Linear", "CubicSpline"}
\* 223697 / 256 s is the first time whose product with 4800 is no f32.
TimeVals == {-1, F32One, 223697}
\* Every sequence of these timestamps, and samples at 0 s and 1 s.
TimeSeqs == SeqsUpTo(TimeVals, MaxKeys) \cup {<<0>>, <<0, F32One>>}
QuatVals == {<<0, 0, 0, F32One>>, <<181, 0, 0, 181>>}
VecVals == {<<F32One, 0, -128>>, <<64, 512, 32>>}
SamplesOf(kind) == IF kind = "Rotations" THEN QuatVals ELSE VecVals

Channel(node, kind, readable, interpolation, inputs, outputs) ==
    [node |-> node, kind |-> kind, readable |-> readable,
     interpolation |-> interpolation, inputs |-> inputs, outputs |-> outputs]

\* Several channels of every target, kind and readability; the channel at
\* position j holds one key at j seconds, which tells the channels apart.
ChannelHeads ==
    [node : {0, 1}, kind : {"Rotations", "Translations", "Scales"}, readable : BOOLEAN]
ChannelAt(h, j) ==
    Channel(h.node, h.kind, h.readable, "Linear", <<j * F32One>>,
            <<CHOOSE v \in SamplesOf(h.kind) : TRUE>>)
SelectAnims ==
    {[j \in 1..Len(hs) |-> ChannelAt(hs[j], j)] : hs \in SeqsUpTo(ChannelHeads, MaxChannels)}

\* One rotation and one translation channel for each node of a set, the keys
\* of node k at k + 1 seconds.
RECURSIVE NodeAnim(_)
NodeAnim(S) ==
    IF S = {} THEN <<>>
    ELSE LET k == FirstOf(S)
         IN  <<Channel(k, "Rotations", TRUE, "Linear", <<(k + 1) * F32One>>,
                       <<<<181, 0, 0, 181>>>>),
               Channel(k, "Translations", TRUE, "Step", <<(k + 1) * F32One>>,
                       <<<<F32One, 0, -128>>>>)>>
             \o NodeAnim(S \ {k})
\* A cubic spline channel whose sample count is no multiple of three.
ShortSplineAnim ==
    <<Channel(0, "Rotations", TRUE, "CubicSpline", <<0>>, <<<<0, 0, 0, F32One>>>>)>>

Nodes == 0..(MaxJoints - 1)

Matrix(diag, w) == [diag |-> diag, w |-> w]
UnitMatrix == Matrix(<<F32One, F32One, F32One>>, <<0, 0, 0>>)
\* Scales 1, within 0.01 of 1, above 1.01 on an axis, below 0.99 on an axis;
\* a half turn about z; a mirror of the z axis; an x axis of length 0.
MatrixVals ==
    {UnitMatrix,
     Matrix(<<258, 254, F32One>>, <<F32One, 0, 0>>),
     Matrix(<<F32One, 262, F32One>>, <<0, F32One, 0>>),
     Matrix(<<250, F32One, F32One>>, <<0, 0, F32One>>),
     Matrix(<<-F32One, -F32One, F32One>>, <<F32One, F32One, 0>>),
     Matrix(<<F32One, F32One, -F32One>>, <<0, F32One, F32One>>),
     Matrix(<<0, F32One, F32One>>, <<F32One, 0, F32One>>)}

\* Every node has at most one parent, and is not its own parent.
ParentFns == {f \in [Nodes -> {None} \cup {Some(p) : p \in Nodes}] :
                 \A n \in Nodes : f[n] # Some(n)}
SceneOf(par, named) ==
    [children |-> [n \in DOMAIN par |-> {c \in DOMAIN par : par[c] = Some(n)}],
     names |-> [n \in DOMAIN par |-> IF named THEN Some(<<"node", n>>) ELSE None]]
ChainScene(n, named) ==
    SceneOf([k \in 0..(n - 1) |-> IF k = 0 THEN None ELSE Some(k - 1)], named)
ChainJoints(n) == [i \in 1..n |-> i - 1]
Skin(joints, ibm) == [joints |-> joints, ibm |-> ibm]
\* Joint i's matrix carries i in its translation.
MatricesFor(n) == Some([i \in 1..n |-> Matrix(<<F32One, F32One, F32One>>, <<i, 0, 0>>)])

NoScene == [children |-> <<>>, names |-> <<>>]
NoSkin == Skin(<<>>, None)

Idle ==
    /\ rot_res = NotRun /\ trans_res = NotRun
    /\ bones = <<>> /\ bones_ret = NotReturned
    /\ rfa_bones = <<>> /\ rfa = NoFile /\ range = None
    /\ file = Absent /\ wrt = <<>> /\ io_ret = NotReturned

-----------------------------------------------------------------------------
(* Specifications *)

KeysNext == ConvertRotationKeys \/ ConvertTranslationKeys

\* Key extraction from one channel on the target node, with every shape of
\* timestamps and samples.
InitKeys ==
    /\ \E kind \in {"Rotations", "Translations"}, ip \in Interpolations :
          \E ins \in TimeSeqs,
             outs \in SeqsUpTo(SamplesOf(kind), MaxSamples) :
              anim = <<Channel(0, kind, TRUE, ip, ins, outs)>>
    /\ skin = NoSkin /\ scene = NoScene /\ target = 0 /\ pc = "keys"
    /\ Idle
SpecKeys == InitKeys /\ [][KeysNext]_vars

\* Key extraction from an animation of several channels.
InitSelect ==
    /\ anim \in SelectAnims
    /\ skin = NoSkin /\ scene = NoScene /\ target = 0 /\ pc = "keys"
    /\ Idle
SpecSelect == InitSelect /\ [][KeysNext]_vars

\* The time range of bone animations with keys at given ticks.
TickVals == {0, 100, 5000}
RangeKeys(S) == SeqsUpTo(S, 1)
RangeBones ==
    {RfaBone(rk, tk) :
        rk \in RangeKeys({[time |-> t, rotation |-> <<0, 0, 0, QuatScale>>,
                           ease_in |-> 0, ease_out |-> 0] : t \in TickVals}),
        tk \in RangeKeys({[time |-> t, in_tangent |-> <<0, 0, 0>>,
                           translation |-> <<0, 0, 0>>,
                           out_tangent |-> <<0, 0, 0>>] : t \in TickVals})}
InitRange ==
    /\ rfa_bones \in SeqsUpTo(RangeBones, MaxJoints)
    /\ anim = <<>> /\ skin = NoSkin /\ scene = NoScene /\ target = 0 /\ pc = "range"
    /\ rot_res = NotRun /\ trans_res = NotRun
    /\ bones = <<>> /\ bones_ret = NotReturned
    /\ rfa = NoFile /\ range = None
    /\ file = Absent /\ wrt = <<>> /\ io_ret = NotReturned
SpecRange == InitRange /\ [][DetermineAnimTimeRange]_vars

\* convert_bones over hierarchies, over matrices, and over skins at the limit.
HierarchyInputs ==
    {<<Skin(js, MatricesFor(Len(js))), SceneOf(par, named)>> :
        js \in InjSeqsUpTo(Nodes, MaxJoints), par \in ParentFns, named \in BOOLEAN}
MatrixInputs ==
    UNION {{<<Skin(ChainJoints(n), ibm), ChainScene(n, FALSE)>> :
                ibm \in {None} \cup
                        {Some(ms) : ms \in SeqsOfLen(MatrixVals,
                                                     {k \in (n-1)..(n+1) :
                                                        k >= 0 /\ k <= MaxJoints})}} :
           n \in 0..MaxJoints}
LimitInputs ==
    UNION {{<<Skin(ChainJoints(n), ibm), ChainScene(n, FALSE)>> :
                ibm \in {None, MatricesFor(n), MatricesFor(n - 1)}} :
           n \in {MAX_BONES, MAX_BONES + 1}}
InitBones ==
    /\ \E p \in HierarchyInputs \cup MatrixInputs \cup LimitInputs :
          skin = p[1] /\ scene = p[2]
    /\ anim = <<>> /\ target = 0 /\ pc = "convert_bones"
    /\ Idle
BonesNext == ConvertBonesCheck \/ ConvertBone \/ ConvertBonesReturn
SpecBones == InitBones /\ [][BonesNext]_vars

\* The bone list of a skin, then the animation record of the same skin.
AgreeInputs ==
    {<<Skin(js, MatricesFor(Len(js))), ChainScene(MaxJoints, TRUE)>> :
        js \in InjSeqsUpTo(Nodes, MaxJoints)}
InitAgree ==
    /\ \E p \in AgreeInputs : skin = p[1] /\ scene = p[2]
    /\ anim \in {NodeAnim(S) : S \in SUBSET Nodes}
    /\ target = 0 /\ pc = "convert_bones"
    /\ Idle
AgreeNext == BonesNext \/ BeginMakeRfa \/ MakeRfaBone \/ MakeRfaReturn
SpecAgree == InitAgree /\ [][AgreeNext]_vars

\* convert_animation_to_rfa, from its first statement to its return.
InitFile ==
    /\ \E p \in AgreeInputs : skin = p[1] /\ scene = p[2]
    /\ anim \in {NodeAnim(S) : S \in SUBSET Nodes} \cup {ShortSplineAnim}
    /\ target = 0 /\ pc = "println"
    /\ Idle
FileNext ==
    println \/ CreateFile \/ MakeRfaBone \/ MakeRfaReturn \/ WriteRecord \/ WriteReturn \/ DropWriter
SpecFile == InitFile /\ [][FileNext]_vars

-----------------------------------------------------------------------------
(* Claims *)

TheChannel == anim[1]
Finished == pc \in {"returned", "panic"}

\* The set of all key times of a list of bone animations.
TimeSet(bs) ==
    UNION {{b.rotation_keys[i].time : i \in 1..Len(b.rotation_keys)} \cup
           {b.translation_keys[i].time : i \in 1..Len(b.translation_keys)} :
           b \in {bs[j] : j \in 1..Len(bs)}}
IsMinOf(x, S) == x \in S /\ \A y \in S : x <= y
IsMaxOf(x, S) == x \in S /\ \A y \in S : x >= y

\* C1: determine_anim_time_range returns the minimum and the maximum of the
\* times of all keys of all bones, and (0, 0) when there is no key.
C1_TimeRangeIsMinMax ==
    range.some =>
        LET S == TimeSet(rfa_bones)
        IN  IF S = {} THEN range.value = <<0, 0>>
            ELSE IsMinOf(range.value[1], S) /\ IsMaxOf(range.value[2], S)

\* C2 as stated: a cubic spline translation key keeps the tangents, key i
\* (from 0) holding the converted samples 3i, 3i+1, 3i+2; a step or linear
\* key holds the converted sample i three times.
C2_SplineTangentsRetained ==
    (trans_res.status = "ok" /\ TheChannel.kind = "Translations") =>
        LET outs == TheChannel.outputs
            keys == trans_res.keys
        IN  IF TheChannel.interpolation = "CubicSpline"
            THEN \A i \in 1..Len(keys) :
                    /\ keys[i].in_tangent = gltf_to_rf_vec(outs[3*i - 2])
                    /\ keys[i].translation = gltf_to_rf_vec(outs[3*i - 1])
                    /\ keys[i].out_tangent = gltf_to_rf_vec(outs[3*i])
            ELSE \A i \in 1..Len(keys) :
                    /\ keys[i].in_tangent = gltf_to_rf_vec(outs[i])
                    /\ keys[i].translation = gltf_to_rf_vec(outs[i])
                    /\ keys[i].out_tangent = gltf_to_rf_vec(outs[i])

\* C2 amended: a cubic spline translation key drops the tangents, all three
\* fields of key i (from 0) holding the converted value sample 3i+1; a step or
\* linear key holds the converted sample i three times.
C2_SplineTangentsDropped ==
    (trans_res.status = "ok" /\ TheChannel.kind = "Translations") =>
        LET outs == TheChannel.outputs
            keys == trans_res.keys
        IN  \A i \in 1..Len(keys) :
                LET v == IF TheChannel.interpolation = "CubicSpline"
                         THEN gltf_to_rf_vec(outs[3*i - 1])
                         ELSE gltf_to_rf_vec(outs[i])
                IN  /\ keys[i].in_tangent = v
                    /\ keys[i].translation = v
                    /\ keys[i].out_tangent = v

\* Two cubic spline translation keys whose tangent samples differ from the
\* value samples.
C2_Witness ==
    /\ trans_res.status = "ok"
    /\ TheChannel.kind = "Translations"
    /\ TheChannel.interpolation = "CubicSpline"
    /\ Len(TheChannel.outputs) = 6
    /\ Len(trans_res.keys) = 2
    /\ TheChannel.outputs[1] # TheChannel.outputs[2]
    /\ TheChannel.outputs[6] # TheChannel.outputs[5]

\* The scale of a matrix deviates from 1 by more than 0.01 on some axis.
ScaleDeviates(m) == \E k \in 1..3 : Abs(to_scale(m)[k] - F32One) * 100 > F32One

\* C3: no bone is produced from a joint whose inverse bind matrix has a scale
\* deviating from 1 by more than 0.01 on any axis, above or below, and no bone
\* list is returned for a skin with such a joint.
C3_ScaleAbortsBothWays ==
    /\ \A i \in 1..Len(bones) : ~ScaleDeviates(skin.ibm.value[i])
    /\ bones_ret.status = "Ok" =>
           \A i \in 1..NumJoints : ~ScaleDeviates(skin.ibm.value[i])

\* C4: convert_bones is all or nothing.  Too many joints give the capacity
\* error whatever the matrices are; otherwise a differing matrix count gives
\* the mismatch error with no bone converted; an abort returns nothing; and a
\* returned list has one bone for each joint.
C4_AllOrNothing ==
    /\ (pc # "convert_bones" /\ NumJoints > MAX_BONES) =>
           bones_ret = Err("too many bones") /\ bones = <<>>
    /\ (pc # "convert_bones" /\ NumJoints <= MAX_BONES /\ skin.ibm.some
            /\ Len(skin.ibm.value) # NumJoints) =>
           bones_ret = Err("invalid number of inverse bind matrices") /\ bones = <<>>
    /\ pc = "panic" => bones_ret = NotReturned
    /\ bones_ret.status \in {"not returned", "Err", "Ok"}
    /\ bones_ret.status = "Err" => pc = "returned" /\ bones = <<>>
    /\ bones_ret.status = "Ok" =>
           /\ pc = "returned"
           /\ Len(bones_ret.value) = NumJoints
           /\ NumJoints <= MAX_BONES
           /\ Len(skin.ibm.value) = NumJoints

\* The scale assertion stops the conversion at a later joint: bones were
\* converted, and the caller receives none.
C4_Witness ==
    /\ pc = "panic"
    /\ Len(bones) >= 2
    /\ bones_ret = NotReturned

\* The positions of the joints that list joint i as a child.
Listing(i) == {p \in Positions(skin) : JointAt(skin, i) \in Children(JointAt(skin, p))}
SoleRootSkeleton ==
    /\ NumJoints >= 1
    /\ Listing(0) = {}
    /\ \A i \in Positions(skin) \ {0} : Cardinality(Listing(i)) = 1

\* C5: in a skeleton whose joint 0 is the sole root and whose other joints
\* each have one parent among the joints, one bone has parent_index -1 and
\* every other bone has the position of its parent in the joint list, in range
\* and not its own; whatever the skeleton, a parent is always a joint of it.
C5_ParentIndex ==
    bones_ret.status = "Ok" =>
        LET bs == bones_ret.value
        IN  /\ \A i \in Positions(skin) :
                   \/ bs[i + 1].parent_index = -1
                   \/ bs[i + 1].parent_index \in Listing(i)
            /\ SoleRootSkeleton =>
                   /\ Cardinality({i \in Positions(skin) : bs[i + 1].parent_index = -1}) = 1
                   /\ \A i \in Positions(skin) \ {0} :
                          /\ Listing(i) = {bs[i + 1].parent_index}
                          /\ bs[i + 1].parent_index \in 0..(NumJoints - 1)
                          /\ bs[i + 1].parent_index # i

\* A sole-root skeleton of three joints whose joint order is not the scene
\* order: a parent's position differs from its scene node index.
C5_Witness ==
    /\ bones_ret.status = "Ok"
    /\ SoleRootSkeleton
    /\ NumJoints = 3
    /\ \E i \in Positions(skin) :
           /\ bones_ret.value[i + 1].parent_index >= 0
           /\ JointAt(skin, bones_ret.value[i + 1].parent_index)
                  # bones_ret.value[i + 1].parent_index

Animated(n) == \E j \in 1..Len(anim) : anim[j].node = n

\* C6: the animation record and the bone list of a skin index the joints
\* alike: num_bones is the length of both lists, and record i and bone i both
\* come from joint i (its keys at the node's own time, its name, its matrix).
C6_BoneIndicesAgree ==
    rfa.status = "built" =>
        /\ bones_ret.status = "Ok"
        /\ rfa.header.num_bones = Len(rfa.bones)
        /\ rfa.header.num_bones = Len(bones_ret.value)
        /\ Len(rfa.bones) = NumJoints
        /\ \A i \in Positions(skin) :
               LET n == JointAt(skin, i)
                   b == rfa.bones[i + 1]
               IN  /\ Len(b.rotation_keys) = (IF Animated(n) THEN 1 ELSE 0)
                   /\ Len(b.translation_keys) = (IF Animated(n) THEN 1 ELSE 0)
                   /\ \A k \in 1..Len(b.rotation_keys) :
                          b.rotation_keys[k].time = (n + 1) * 4800
                   /\ \A k \in 1..Len(b.translation_keys) :
                          b.translation_keys[k].time = (n + 1) * 4800
                   /\ bones_ret.value[i + 1].name = <<"node", n>>
                   /\ bones_ret.value[i + 1].base_translation
                          = gltf_to_rf_vec(skin.ibm.value[i + 1].w)
                   /\ bones_ret.value[i + 1].base_rotation
                          = gltf_to_rf_quat(to_rotation(skin.ibm.value[i + 1]))

\* Three joints in an order that is not the scene order, two of them animated.
C6_Witness ==
    /\ rfa.status = "built"
    /\ NumJoints = 3
    /\ JointAt(skin, 0) # 0
    /\ Animated(JointAt(skin, 0))
    /\ ~Animated(JointAt(skin, 1))
    /\ Animated(JointAt(skin, 2))

\* q is num / den truncated toward zero (den > 0).
IsTruncation(q, num, den) ==
    IF num >= 0 THEN q >= 0 /\ q * den <= num /\ num < (q + 1) * den
    ELSE q <= 0 /\ q * den >= num /\ num > (q - 1) * den

\* A rotation channel with as many sample groups as timestamps.
WellFormedRotationChannel ==
    /\ TheChannel.kind = "Rotations"
    /\ Len(TheChannel.outputs) =
           (IF TheChannel.interpolation = "CubicSpline" THEN 3 ELSE 1)
               * Len(TheChannel.inputs)

\* C7: a rotation channel of n timestamps gives n keys in timestamp order,
\* key i with the time truncated toward zero from seconds * 4800 (the f32
\* product, which is seconds * 4800 itself whenever that is an f32; 873.8164 s
\* gives 4194319), both eases 0 and the quantized converted sample i (step, linear)
\* or value sample 3i+1 (cubic spline); 0s and 1s give the times 0 and 4800.
C7_RotationKeys ==
    (rot_res # NotRun /\ WellFormedRotationChannel) =>
        LET ins == TheChannel.inputs
            outs == TheChannel.outputs
        IN  /\ rot_res.status = "ok"
            /\ Len(rot_res.keys) = Len(ins)
            /\ \A i \in 1..Len(ins) :
                   LET k == rot_res.keys[i]
                       raw == IF TheChannel.interpolation = "CubicSpline"
                              THEN outs[3*i - 1] ELSE outs[i]
                   IN  /\ IsTruncation(k.time, RoundF32(ins[i] * 4800), F32One)
                       /\ Abs(ins[i] * 4800) < 16777216 =>
                              IsTruncation(k.time, ins[i] * 4800, F32One)
                       /\ ins[i] = 223697 => k.time = 4194319
                       /\ k.ease_in = 0 /\ k.ease_out = 0
                       /\ k.rotation = make_short_quat(gltf_to_rf_quat(raw))
                       /\ raw = <<0, 0, 0, F32One>> => k.rotation = <<0, 0, 0, 16383>>
            /\ ins = <<0, F32One>> =>
                   <<rot_res.keys[1].time, rot_res.keys[2].time>> = <<0, 4800>>

\* Two cubic spline rotation keys from six raw samples at 0 s and 1 s, the
\* tangent samples differing from the value samples: the keys have the times
\* 0 and 4800.
C7_Witness ==
    /\ rot_res.status = "ok"
    /\ WellFormedRotationChannel
    /\ TheChannel.interpolation = "CubicSpline"
    /\ TheChannel.inputs = <<0, F32One>>
    /\ Len(rot_res.keys) = 2
    /\ <<rot_res.keys[1].time, rot_res.keys[2].time>> = <<0, 4800>>
    /\ TheChannel.outputs[1] # TheChannel.outputs[2]
    /\ TheChannel.outputs[4] # TheChannel.outputs[5]

\* C8: when convert_animation_to_rfa has finished in any way, the output file
\* does not exist or holds the complete record.
C8_NoPartialFile ==
    Finished =>
        \/ ~file.exists
        \/ rfa.status = "built" /\ file.content = Serialize(rfa)

\* The positions of the channels that target the node and carry values of a kind.
Carrying(kind) ==
    {j \in 1..Len(anim) :
        anim[j].node = target /\ anim[j].readable /\ anim[j].kind = kind}
\* The keys come from the first such channel alone: the channel at position j
\* holds one key, at j seconds.
KeysFromFirst(res, kind) ==
    res # NotRun =>
        /\ res.status = "ok"
        /\ IF Carrying(kind) = {} THEN res.keys = <<>>
           ELSE /\ Len(res.keys) = 1
                /\ \E j \in Carrying(kind) :
                       /\ \A k \in Carrying(kind) : j <= k
                       /\ res.keys[1].time = j * 4800

\* C9: the rotation (translation) keys of a node come from the first channel,
\* in channel order, that targets the node and carries rotations
\* (translations); with no such channel the sequence is empty, without error.
C9_FirstChannelWins ==
    /\ KeysFromFirst(rot_res, "Rotations")
    /\ KeysFromFirst(trans_res, "Translations")

\* Two rotation channels on the node behind a channel of another node: the
\* keys are those of the first of the two.
C9_Witness ==
    /\ Len(anim) = 3
    /\ anim[1].node # target
    /\ Carrying("Rotations") = {2, 3}
    /\ rot_res.status = "ok"
    /\ rot_res.keys[1].time = 2 * 4800
    /\ trans_res.status = "ok"
    /\ trans_res.keys = <<>>

Groups(c) ==
    IF c.interpolation = "CubicSpline" THEN Len(c.outputs) \div 3 ELSE Len(c.outputs)

\* C10: key extraction never aborts, and returns min(timestamps, groups) keys
\* whatever the counts of timestamps and of raw samples are.
C10_ExtractionTotal ==
    /\ (rot_res # NotRun /\ TheChannel.kind = "Rotations") =>
           /\ rot_res.status = "ok"
           /\ Len(rot_res.keys) = Min(Len(TheChannel.inputs), Groups(TheChannel))
    /\ (trans_res # NotRun /\ TheChannel.kind = "Translations") =>
           /\ trans_res.status = "ok"
           /\ Len(trans_res.keys) = Min(Len(TheChannel.inputs), Groups(TheChannel))

====
